---- MODULE Spec2Model ----
(***************************************************************************)
(* Token generation of mlx_lm/utils.py: the cutoff truncation sampler      *)
(* (generate_step.sample), the lazy generation loop (generate_step) and    *)
(* the driver (generate).                                                  *)
(*                                                                         *)
(* Arrays are functions over 0..n-1, as in the source.  Real numbers are   *)
(* exact rationals <<numerator, denominator>> with a positive denominator. *)
(***************************************************************************)
EXTENDS Integers, Sequences, FiniteSets, TLC

VARIABLES
    V,      \* vocabulary size of the loaded model (length of a logits vector)
    arg,    \* the prompt tokens and the cutoff the callers of this run pass
    smp,    \* one call of sample(logits): its input and its outcome
    gens,   \* the generator objects made by generate_step(...), by identity
    log,    \* every Model forward call so far, in call order
    drv     \* the frame of the running (or last) call of generate(...)

vars == <<V, arg, smp, gens, log, drv>>

(***************************** bounds **************************************)
MaxV == 3           \* vocabulary sizes 1..MaxV
MaxLogit == 3       \* a logit is an integer 0..MaxLogit
ExpRange == 2       \* exp(l - max) underflows to 0 once max - l > ExpRange
MaxPromptLen == 2   \* prompts hold 1..MaxPromptLen tokens
MaxTokens == 2      \* max_tokens is drawn from 0..MaxTokens
MaxCalls == 3       \* Model forward calls in one run

NoExc == "none"
IndexError == "IndexError"
AttributeError == "AttributeError"

(* the identities of the generator objects of one run: two, since sharing  *)
(* between generation calls is a matter of pairs of them                   *)
Gens == {1, 2}

(* cache = None; the cache a Model call returns is a fresh value 1, 2, ... *)
NoCache == 0

(* generate_step's default cutoff and generate's default temp *)
DefaultCutoff == <<7, 1>>
DefaultTemp == <<0, 1>>

(* cutoff values tried: negative, 0, inside (0,1), 1, just above 1, 7.0 *)
Cutoffs == {<<-1, 1>>, DefaultTemp, <<1, 2>>, <<3, 4>>, <<1, 1>>,
            <<1001, 1000>>, DefaultCutoff}

Vocab == 0 .. (V - 1)

LogitVecs(n) == [0 .. (n - 1) -> 0 .. MaxLogit]

(***************************** sample **************************************)
RECURSIVE Pow2(_)
Pow2(n) == IF n <= 0 THEN 1 ELSE 2 * Pow2(n - 1)

RECURSIVE SumTo(_, _)
SumTo(f, n) == IF n < 0 THEN 0 ELSE f[n] + SumTo(f, n - 1)

MaxOf(f) == CHOOSE m \in {f[i] : i \in DOMAIN f} : \A i \in DOMAIN f : f[i] <= m

(* mx.softmax over the whole vector: entry i is w[i] / s, where w[i] is    *)
(* exp(logits[i] - max) (here in base 2, underflowing to 0) and s their    *)
(* sum.  The result is non-negative, sums to 1 and its top entry is > 0.   *)
Softmax(logits) ==
    LET m == MaxOf(logits)
        w == [i \in DOMAIN logits |->
                IF m - logits[i] > ExpRange THEN 0
                ELSE Pow2(ExpRange - (m - logits[i]))]
    IN  [w |-> w, s |-> SumTo(w, Cardinality(DOMAIN logits) - 1)]

(* np.argsort(np_logits)[::-1]: an ordering of the indices by descending   *)
(* probability; the order among equal entries is left to the sort.         *)
ArgsortDesc(p) ==
    LET D == DOMAIN p.w
    IN  {r \in [D -> D] :
            /\ \A a, b \in D : a # b => r[a] # r[b]
            /\ \A a, b \in D : a < b => p.w[r[a]] >= p.w[r[b]]}

DropBelowOrEqual(wj, w0, cutoff) == (w0 - wj) * cutoff[2] <= cutoff[1] * w0

(* 1 - (pj / t0) < cutoff, for probabilities pj = wj/s and t0 = w0/s > 0,  *)
(* in exact arithmetic                                                     *)
DropBelow(wj, w0, cutoff) == (w0 - wj) * cutoff[2] < cutoff[1] * w0

(* the while loop of sample, entered with j: the final j, or IndexError    *)
(* when sorted_indices[j] is read with j past the end (the subscript is    *)
(* evaluated before the test j < len(np_logits)).                          *)
RECURSIVE WhileJ(_, _, _, _)
WhileJ(p, rank, cutoff, j) ==
    IF j \notin DOMAIN rank THEN [exc |-> IndexError, j |-> j]
    ELSE IF DropBelow(p.w[rank[j]], p.w[rank[0]], cutoff)
            /\ j < Cardinality(DOMAIN p.w)
         THEN WhileJ(p, rank, cutoff, j + 1)
         ELSE [exc |-> NoExc, j |-> j]

(* accepted_logits: j copies of the probability at rank j *)
Accepted(p, rank, j) == [i \in 0 .. (j - 1) |-> <<p.w[rank[j]], p.s>>]

(* mx.random.categorical over finite log-weights, reseeded from the clock   *)
(* before each draw: any position can come out                              *)
Categorical(accepted) == DOMAIN accepted

(* a call of sample that has not run yet *)
SampleInput(logits, cutoff) ==
    [st |-> "input", exc |-> NoExc, logits |-> logits, cutoff |-> cutoff,
     p |-> Softmax(logits), rank |-> <<>>, t0 |-> <<0, 1>>, j |-> 0,
     accepted |-> <<>>, idx |-> -1, c |-> -1]

(* every outcome of sample(logits) under the given cutoff *)
Sample(logits, cutoff) ==
    LET p == Softmax(logits)
        call == SampleInput(logits, cutoff)
    IN  UNION {
          LET w == WhileJ(p, rank, cutoff, 1)
              t0 == <<p.w[rank[0]], p.s>>
          IN  IF w.exc # NoExc
              THEN {[call EXCEPT !.st = "raised", !.exc = w.exc, !.rank = rank,
                               !.t0 = t0, !.j = w.j]}
              ELSE {[call EXCEPT !.st = "returned", !.rank = rank, !.t0 = t0,
                               !.j = w.j,
                               !.accepted = Accepted(p, rank, w.j),
                               !.idx = idx, !.c = rank[idx]]
                    : idx \in Categorical(Accepted(p, rank, w.j))}
          : rank \in ArgsortDesc(p)}

(************************ the generation loop ******************************)
NoFrame ==
    [st |-> "none", prompt |-> <<>>, cutoff |-> DefaultCutoff,
     y |-> <<>>, cache |-> NoCache, n |-> 0, sampled |-> <<>>]

(* a generator nobody holds any more: its frame and locals are gone *)
Closed == [NoFrame EXCEPT !.st = "closed"]

FrameStartShared(f) ==
    [f EXCEPT !.st = "suspended", !.y = f.prompt,
              !.cache = IF log = <<>> THEN NoCache ELSE log[Len(log)].cout]

(* y = prompt; cache = None, run when the generator is first resumed *)
FrameStart(f) == [f EXCEPT !.st = "suspended", !.y = f.prompt, !.cache = NoCache]

Resume(f) == IF f.st = "created" THEN FrameStart(f) ELSE f

(* generate_step(prompt, model, cutoff): a generator object, nothing run yet *)
NewGenerator(prompt, cutoff) ==
    [NoFrame EXCEPT !.st = "created", !.prompt = prompt, !.cutoff = cutoff]

NextInputAppended(y, c) == Append(y, c)

(* t0, y = sample(logits): the next Model call is given the sampled token *)
NextInput(y, c) == <<c>>

(* cutoffs handed to generate_step: generate's default temp, one inside    *)
(* (0, 1), and generate_step's own default                                 *)
StepCutoffs == {DefaultTemp, <<1, 2>>, DefaultCutoff}

(* model(y[None], cache=cache) and logits[:, -1, :]: the Model adapter may  *)
(* answer any logits vector for the last position.  SampleTable[v][c] holds *)
(* what sample then does, over every such vector of a vocabulary of size v. *)
SampleTable ==
    [v \in 1 .. MaxV |-> [c \in StepCutoffs |->
        {[raised |-> s.st = "raised", t0 |-> s.t0, y |-> s.c]
         : s \in UNION {Sample(l, c) : l \in LogitVecs(v)}}]]

(* the cache a Model call returns is a value no call returned before *)
FreshCache == Len(log) + 1

(* one pass of the loop body of generate_step in generator g, up to its    *)
(* yield or to the IndexError of sample: the frame after, the Model call   *)
(* made, and the pair yielded.                                             *)
StepOutcomes(g) ==
    LET f == Resume(gens[g])
    IN  {[raised |-> s.raised,
          call |-> [gen |-> g, inp |-> f.y, cin |-> f.cache, cout |-> FreshCache],
          item |-> [t0 |-> s.t0, y |-> s.y],
          frame |-> IF s.raised
                    THEN [f EXCEPT !.st = "raised", !.cache = FreshCache]
                    ELSE [f EXCEPT !.st = "suspended", !.cache = FreshCache,
                                   !.y = NextInput(f.y, s.y),
                                   !.n = @ + 1,
                                   !.sampled = Append(@, s.y)]]
         : s \in SampleTable[V][f.cutoff]}

FreeGens == {g \in Gens : gens[g].st = "none"}

(* the lowest unused identity: generator objects are interchangeable *)
FreshGen == CHOOSE g \in FreeGens : \A h \in FreeGens : g <= h

Live(g) == gens[g].st \in {"created", "suspended"}

(* prompt token sequences: not empty, over the first two vocabulary entries *)
Prompts == UNION {[1 .. n -> Vocab \cap {0, 1}] : n \in 1 .. MaxPromptLen}

(* a caller makes a generator: generate_step(prompt, model, cutoff) *)
NewGen ==
    /\ FreeGens # {}
    /\ gens' = [gens EXCEPT ![FreshGen] = NewGenerator(arg.prompt, arg.cutoff)]
    /\ UNCHANGED <<V, arg, smp, log, drv>>

(* that caller asks the generator for its next pair: next(g) *)
Pull(g) ==
    /\ Live(g)
    /\ Len(log) < MaxCalls
    /\ \E o \in StepOutcomes(g) :
          /\ gens' = [gens EXCEPT ![g] = o.frame]
          /\ log' = Append(log, o.call)
    /\ UNCHANGED <<V, arg, smp, drv>>

(* that caller stops iterating and drops the generator *)
Abandon(g) ==
    /\ Live(g)
    /\ gens' = [gens EXCEPT ![g] = Closed]
    /\ UNCHANGED <<V, arg, smp, log, drv>>

(****************************** generate ***********************************)
(* strings are sequences of character codes *)
RECURSIVE DecodePairs(_)
DecodePairs(toks) ==
    IF Len(toks) = 0 THEN <<>>
    ELSE IF Len(toks) = 1 THEN <<-1>>
    ELSE <<(toks[1] + 1) * MaxV + toks[2]>> \o DecodePairs(SubSeq(toks, 3, Len(toks)))

(* tokenizer.decode(tokens).  "concat": one character per token, token t    *)
(* giving the character of code 65 + t.  "pairs": two tokens make one        *)
(* character and a dangling last token shows as the replacement character    *)
(* -1, so a new token can change the text before it.                         *)
Decode(tok, toks) ==
    IF tok.kind = "concat" THEN [k \in 1 .. Len(toks) |-> 65 + toks[k]]
    ELSE DecodePairs(toks)

Tokenizers == [eos : Vocab, kind : {"concat", "pairs"}]

(* s[skip:] *)
Slice(s, skip) == SubSeq(s, skip + 1, Len(s))

NoToken == [kind |-> "none", t0 |-> <<0, 1>>, y |-> -1]

(* for token, _ in zip(generate_step(...), range(max_tokens)): zip makes    *)
(* the pair (item, i), so token is the whole item, the tuple (t0, y).       *)
ZipBind(item) == [kind |-> "tuple", t0 |-> item.t0, y |-> item.y]

(* token == tokenizer.eos_token_id: a tuple is never equal to an int *)
PyEq(token, id) == token.kind = "array" /\ token.y = id

(* token.item() exists on an array, not on a tuple *)
HasItem(token) == token.kind = "array"

NoCall ==
    [pc |-> "idle", gen |-> 0, i |-> 0, max_tokens |-> 0, verbose |-> FALSE,
     tok |-> [eos |-> 0, kind |-> "concat"], token |-> NoToken,
     tokens |-> <<>>, skip |-> 0, printed |-> <<>>, ret |-> <<>>,
     exc |-> NoExc]

(* generate(...) is called: lines 135-139 up to the making of the zip;     *)
(* arg.prompt is tokenizer.encode(prompt) and arg.cutoff is temp           *)
Generate(max_tokens, verbose, tok) ==
    /\ drv.pc = "idle"
    /\ gens' = [gens EXCEPT ![FreshGen] = NewGenerator(arg.prompt, arg.cutoff)]
    /\ drv' = [NoCall EXCEPT !.pc = "for", !.gen = FreshGen,
                             !.max_tokens = max_tokens, !.verbose = verbose,
                             !.tok = tok]
    /\ UNCHANGED <<V, arg, smp, log>>

(* zip.__next__: next(generator) first, then next(range) *)
ForNext ==
    /\ drv.pc = "for"
    /\ Len(log) < MaxCalls
    /\ \E o \in StepOutcomes(drv.gen) :
          /\ log' = Append(log, o.call)
          /\ IF o.raised
             THEN /\ gens' = [gens EXCEPT ![drv.gen] = o.frame]
                  /\ drv' = [drv EXCEPT !.pc = "raised", !.exc = IndexError]
             ELSE IF drv.i < drv.max_tokens
             THEN /\ gens' = [gens EXCEPT ![drv.gen] = o.frame]
                  /\ drv' = [drv EXCEPT !.pc = "body", !.i = @ + 1,
                                        !.token = ZipBind(o.item)]
             ELSE /\ gens' = [gens EXCEPT ![drv.gen] = o.frame]
                  /\ drv' = [drv EXCEPT !.pc = "final"]
    /\ UNCHANGED <<V, arg, smp>>

(* the body of the for loop, lines 140-148 *)
Body ==
    /\ drv.pc = "body"
    /\ IF PyEq(drv.token, drv.tok.eos)
       THEN /\ drv' = [drv EXCEPT !.pc = "final"]
            /\ UNCHANGED gens
       ELSE IF ~HasItem(drv.token)
       THEN /\ drv' = [drv EXCEPT !.pc = "raised", !.exc = AttributeError]
            /\ gens' = [gens EXCEPT ![drv.gen] = Closed]
       ELSE LET tokens == Append(drv.tokens, drv.token.y)
                s == Decode(drv.tok, tokens)
            IN  /\ drv' = IF drv.verbose
                          THEN [drv EXCEPT !.pc = "for", !.tokens = tokens,
                                           !.printed = @ \o Slice(s, drv.skip),
                                           !.skip = Len(s)]
                          ELSE [drv EXCEPT !.pc = "for", !.tokens = tokens]
                /\ UNCHANGED gens
    /\ UNCHANGED <<V, arg, smp, log>>

(* lines 150-153: decode, cut the flushed prefix, return *)
Final ==
    /\ drv.pc = "final"
    /\ drv' = [drv EXCEPT !.pc = "done",
                          !.ret = Slice(Decode(drv.tok, drv.tokens), drv.skip)]
    /\ gens' = [gens EXCEPT ![drv.gen] = Closed]
    /\ UNCHANGED <<V, arg, smp, log>>

(************************** specifications *********************************)
NoSample == SampleInput([i \in Vocab |-> 0], DefaultCutoff)

Init ==
    /\ V \in 1 .. MaxV
    /\ arg \in [prompt : Prompts, cutoff : StepCutoffs]
    /\ smp = NoSample
    /\ gens = [g \in Gens |-> NoFrame]
    /\ log = <<>>
    /\ drv = NoCall

(* sample as a function of its input: one call, from input to outcome *)
InitSample ==
    /\ V \in 1 .. MaxV
    /\ arg = [prompt |-> <<0>>, cutoff |-> DefaultCutoff]
    /\ smp \in {SampleInput(l, c) : l \in LogitVecs(V), c \in Cutoffs}
    /\ gens = [g \in Gens |-> NoFrame]
    /\ log = <<>>
    /\ drv = NoCall

SampleReturns ==
    /\ smp.st = "input"
    /\ smp' \in {s \in Sample(smp.logits, smp.cutoff) : s.st = "returned"}
    /\ UNCHANGED <<V, arg, gens, log, drv>>

SampleRaises ==
    /\ smp.st = "input"
    /\ smp' \in {s \in Sample(smp.logits, smp.cutoff) : s.st = "raised"}
    /\ UNCHANGED <<V, arg, gens, log, drv>>

NextSample == SampleReturns \/ SampleRaises

SpecSample == InitSample /\ [][NextSample]_vars

Next ==
    \/ \E m \in 0 .. MaxTokens, v \in BOOLEAN, tok \in Tokenizers :
          Generate(m, v, tok)
    \/ ForNext
    \/ Body
    \/ Final

(* one call of generate *)
Spec == Init /\ [][Next]_vars

NextStep ==
    \/ NewGen
    \/ \E g \in Gens : Pull(g)
    \/ \E g \in Gens : Abandon(g)

(* generate_step and its callers: generators made, resumed and dropped *)
SpecStep == Init /\ [][NextStep]_vars

(******************************* claims ************************************)
SampleRan == smp.st # "input"

(* the relative drop 1 - p(rank k)/t0 is at least the cutoff of the call *)
DropAtLeast(k) ==
    (smp.p.w[smp.rank[0]] - smp.p.w[smp.rank[k]]) * smp.cutoff[2]
        >= smp.cutoff[1] * smp.p.w[smp.rank[0]]

(* C4: for every logits vector of a vocabulary of size V >= 1 and every    *)
(* cutoff, sample returns, and returns an index c with 0 <= c < V.         *)
C4_ValidIndex ==
    SampleRan => (smp.st = "returned" /\ smp.c \in Vocab)

(* C5: for a vocabulary of size 1 and every cutoff, sample raises nothing, *)
(* does no widening (j stays 1) and returns index 0.                       *)
C5_SingleEntryVocabulary ==
    (SampleRan /\ V = 1) =>
        (smp.st = "returned" /\ smp.exc = NoExc /\ smp.j = 1 /\ smp.c = 0)

(* C6: for a cutoff above 1 (7.0 among them) the widening loop ends with   *)
(* j equal to the vocabulary size and sample returns a token of the        *)
(* vocabulary (stated here for two entries or more, where widening can     *)
(* happen at all).                                                         *)
C6_WidensToWholeVocabulary ==
    (SampleRan /\ V >= 2 /\ smp.cutoff[1] > smp.cutoff[2]) =>
        (smp.st = "returned" /\ smp.j = V /\ smp.c \in Vocab)

(* C7: for a cutoff of 0 and every logits vector, j is 1 and the returned  *)
(* token is one of maximum probability.                                    *)
C7_CutoffZeroIsArgmax ==
    (SampleRan /\ smp.cutoff = DefaultTemp) =>
        /\ smp.st = "returned"
        /\ smp.j = 1
        /\ smp.c \in Vocab
        /\ \A i \in Vocab : smp.p.w[i] <= smp.p.w[smp.c]

(* C7, away from the one-entry vocabulary: what holds of cutoff 0 when     *)
(* V >= 2                                                                  *)
CutoffZeroIsArgmaxFromTwo ==
    (SampleRan /\ smp.cutoff = DefaultTemp /\ V >= 2) =>
        /\ smp.st = "returned"
        /\ smp.j = 1
        /\ \A i \in Vocab : smp.p.w[i] <= smp.p.w[smp.c]

(* C10: when V >= 2 and some rank k >= 1 has a relative drop of at least   *)
(* the cutoff, sample returns; j is the least such k; accepted has j       *)
(* entries, each the probability of the rank-j token; idx lies in [0, j)   *)
(* and every position of [0, j) can be drawn; the result is                *)
(* (t0, rank[idx]) with t0 the largest probability.                        *)
C10_WideningRule ==
    /\ (SampleRan /\ V >= 2 /\ \E k \in 1 .. (V - 1) : DropAtLeast(k)) =>
          /\ smp.st = "returned"
          /\ smp.j \in 1 .. (V - 1)
          /\ DropAtLeast(smp.j)
          /\ \A r \in 1 .. (smp.j - 1) : ~DropAtLeast(r)
          /\ DOMAIN smp.accepted = 0 .. (smp.j - 1)
          /\ \A i \in 0 .. (smp.j - 1) :
                smp.accepted[i] = <<smp.p.w[smp.rank[smp.j]], smp.p.s>>
          /\ smp.idx \in 0 .. (smp.j - 1)
          /\ smp.c = smp.rank[smp.idx]
          /\ smp.t0 = <<smp.p.w[smp.rank[0]], smp.p.s>>
          /\ \A i \in Vocab : smp.p.w[i] <= smp.t0[1]
    /\ smp.st = "input" =>
          \A s \in Sample(smp.logits, smp.cutoff) :
              s.st = "returned" =>
                  \A pos \in 0 .. (s.j - 1) :
                      \E d \in Sample(smp.logits, smp.cutoff) :
                          d.st = "returned" /\ d.rank = s.rank /\ d.idx = pos

(* a call that widened to j = 2 of three or more entries and drew the      *)
(* second position, where the boundary probability is not the top one      *)
C10_Witness ==
    /\ smp.st = "returned"
    /\ smp.j >= 2
    /\ smp.j < V
    /\ smp.idx >= 1
    /\ smp.accepted[0] # smp.t0

(* the Model calls made by generator g, in order *)
CallsOf(g) == SelectSeq(log, LAMBDA e : e.gen = g)

RECURSIVE InputsUpTo(_, _)
InputsUpTo(calls, n) ==
    IF n = 0 THEN <<>> ELSE InputsUpTo(calls, n - 1) \o calls[n].inp

HasFrame(g) == gens[g].st \in {"suspended", "raised"}

(* C3 as written: the Model call for the n-th pair is given the prompt     *)
(* followed by the n - 1 tokens sampled before, L + n - 1 tokens in all.   *)
C3_FullSequenceEachCall ==
    \A g \in Gens : HasFrame(g) =>
        \A n \in 1 .. Len(CallsOf(g)) :
            /\ Len(CallsOf(g)[n].inp) = Len(gens[g].prompt) + n - 1
            /\ CallsOf(g)[n].inp
                   = gens[g].prompt \o SubSeq(gens[g].sampled, 1, n - 1)

(* C3 amended: the first Model call is given the prompt, and the call for  *)
(* the n-th pair, n >= 2, the one token sampled at step n - 1 and the      *)
(* cache the call before returned; so the inputs of calls 1..n, end to     *)
(* end, are the prompt followed by the n - 1 tokens sampled before, in     *)
(* order, each once.                                                       *)
C3_NewTokenEachCall ==
    \A g \in Gens : HasFrame(g) =>
        \A n \in 1 .. Len(CallsOf(g)) :
            /\ n = 1 => CallsOf(g)[n].inp = gens[g].prompt
            /\ n >= 2 => /\ CallsOf(g)[n].inp = <<gens[g].sampled[n - 1]>>
                         /\ CallsOf(g)[n].cin = CallsOf(g)[n - 1].cout
            /\ InputsUpTo(CallsOf(g), n)
                   = gens[g].prompt \o SubSeq(gens[g].sampled, 1, n - 1)

(* a generator with a two-token prompt that has made its third Model call *)
C3_Witness ==
    \E g \in Gens :
        /\ HasFrame(g)
        /\ Len(gens[g].prompt) = 2
        /\ Len(CallsOf(g)) = 3
        /\ gens[g].n >= 2

EarlierOf(k) == {i \in 1 .. (k - 1) : log[i].gen = log[k].gen}

(* C9: the first Model call of a generation call is given no cache; each   *)
(* later one the cache returned by the call before it in the same          *)
(* generation call; and never a cache returned in another generation call. *)
C9_CacheProvenance ==
    \A k \in 1 .. Len(log) :
        /\ EarlierOf(k) = {} => log[k].cin = NoCache
        /\ EarlierOf(k) # {} =>
              \E i \in EarlierOf(k) :
                  /\ \A h \in EarlierOf(k) : h <= i
                  /\ log[k].cin = log[i].cout
        /\ \A i \in 1 .. Len(log) :
              log[i].gen # log[k].gen => log[k].cin # log[i].cout

(* generator 1 made a call and was dropped; generator 2 then made two *)
C9_Witness ==
    /\ Len(log) = 3
    /\ gens[1] = Closed
    /\ log[1].gen = 1
    /\ log[2].gen = 2
    /\ log[3].gen = 2
    /\ log[3].cin = log[2].cout

Handed == drv.token.kind # "none"

(* C1: once the generator has handed over the end-of-sequence id, generate *)
(* leaves the loop at that step and goes on to decode and return, with     *)
(* that id not among the accumulated tokens.                               *)
C1_StopsAtEos ==
    (Handed /\ drv.token.y = drv.tok.eos) =>
        /\ drv.pc \in {"body", "final", "done"}
        /\ \A k \in 1 .. Len(drv.tokens) : drv.tokens[k] # drv.tok.eos

(* C2: the generator of a call of generate runs at most max_tokens steps,  *)
(* each one Model call and one sample call.                                *)
C2_AtMostMaxTokensSteps ==
    drv.pc # "idle" => Len(CallsOf(drv.gen)) <= drv.max_tokens

(* C8: when a call of generate in which sample raised nothing has ended,   *)
(* it has returned, and what it printed in the loop followed by what it    *)
(* returned is the decoding of all the tokens it took from the generator.  *)
C8_PrintedThenReturnedIsDecode ==
    (drv.pc \in {"done", "raised"} /\ drv.exc # IndexError) =>
        /\ drv.pc = "done"
        /\ drv.printed \o drv.ret = Decode(drv.tok, drv.tokens)

====
